---- MODULE Spec2Model ----
(***************************************************************************)
(* Model of the task simplification pipeline of ai/task_simplifier.py:     *)
(* pre-filter, bounded retry around the structured LLM call, the           *)
(* acceptance checks of validate, and the clarify / template fallbacks.    *)
(*                                                                         *)
(* Python strings are TLA+ strings; the string operations the code uses    *)
(* (strip, lower, substring test, the regular expressions, the .2f         *)
(* formatting) are computed character by character.  A confidence score is *)
(* an integer number of hundredths (0.85 is 85).                           *)
(***************************************************************************)
EXTENDS Integers, Sequences, FiniteSets, TLC

\* ------------------------------------------------------------------------
\* Bounds of the model
\* ------------------------------------------------------------------------

\* longest step list the modelled LLM returns
MaxSteps == 2

\* ------------------------------------------------------------------------
\* Program constants (hundredths for the confidence thresholds)
\* ------------------------------------------------------------------------

CONF_ACCEPT == 85
CONF_MIN == 70
\* one retry too many
MAX_RETRY_two == 1 + 1

MAX_RETRY == 1

\* ------------------------------------------------------------------------
\* Python string primitives
\* ------------------------------------------------------------------------

UpperLetters ==
    {"A", "B", "C", "D", "E", "F", "G", "H", "I", "J", "K", "L", "M",
     "N", "O", "P", "Q", "R", "S", "T", "U", "V", "W", "X", "Y", "Z"}

LowerLetters ==
    {"a", "b", "c", "d", "e", "f", "g", "h", "i", "j", "k", "l", "m",
     "n", "o", "p", "q", "r", "s", "t", "u", "v", "w", "x", "y", "z"}

\* the lower-case form of each upper-case letter
ToLower ==
    "A" :> "a" @@ "B" :> "b" @@ "C" :> "c" @@ "D" :> "d" @@ "E" :> "e" @@ "F" :> "f" @@
    "G" :> "g" @@ "H" :> "h" @@ "I" :> "i" @@ "J" :> "j" @@ "K" :> "k" @@ "L" :> "l" @@
    "M" :> "m" @@ "N" :> "n" @@ "O" :> "o" @@ "P" :> "p" @@ "Q" :> "q" @@ "R" :> "r" @@
    "S" :> "s" @@ "T" :> "t" @@ "U" :> "u" @@ "V" :> "v" @@ "W" :> "w" @@ "X" :> "x" @@
    "Y" :> "y" @@ "Z" :> "z"

CharAt(s, i) == SubSeq(s, i, i)

\* the characters matched by [a-zA-Z]
IsLetter(c) == c \in UpperLetters \/ c \in LowerLetters

\* the characters str.strip() removes and \s matches
Whitespace == {" ", "\t", "\n", "\r", "\f"}

LowerChar(c) == IF c \in UpperLetters THEN ToLower[c] ELSE c

RECURSIVE StrLower(_)
\* str.lower(): every character mapped by LowerChar
StrLower(s) ==
    IF Len(s) = 0 THEN ""
    ELSE IF Len(s) = 1 THEN LowerChar(s)
    ELSE LET half == Len(s) \div 2
         IN  StrLower(SubSeq(s, 1, half)) \o StrLower(SubSeq(s, half + 1, Len(s)))

RECURSIVE LStrip(_)
LStrip(s) ==
    IF Len(s) > 0 /\ CharAt(s, 1) \in Whitespace
    THEN LStrip(SubSeq(s, 2, Len(s)))
    ELSE s

RECURSIVE RStrip(_)
RStrip(s) ==
    IF Len(s) > 0 /\ CharAt(s, Len(s)) \in Whitespace
    THEN RStrip(SubSeq(s, 1, Len(s) - 1))
    ELSE s

\* str.strip()
StrStrip(s) == LStrip(RStrip(s))

\* the Python test `sub in s`
StrIn(sub, s) ==
    \E i \in 1..(Len(s) - Len(sub) + 1) : SubSeq(s, i, i + Len(sub) - 1) = sub

\* re.match of a pattern ^\s*(a1|a2|...)\s*$ : optional whitespace, one of
\* the alternatives, optional whitespace, end of the string
ReMatchPadded(alternatives, s) == StrStrip(s) \in alternatives

RECURSIVE LetterRunEnd(_, _)
\* index of the last character of the run of letters that starts at i
LetterRunEnd(s, i) ==
    IF i < Len(s) /\ IsLetter(CharAt(s, i + 1)) THEN LetterRunEnd(s, i + 1) ELSE i

RECURSIVE FindAllWords(_, _)
\* re.findall(r"[a-zA-Z]{4,}", s), scanning from index i: the greedy,
\* non-overlapping runs of four or more letters, left to right
FindAllWords(s, i) ==
    IF i > Len(s) THEN << >>
    ELSE IF ~IsLetter(CharAt(s, i)) THEN FindAllWords(s, i + 1)
    ELSE LET e == LetterRunEnd(s, i)
         IN  IF e - i + 1 >= 4
             THEN << SubSeq(s, i, e) >> \o FindAllWords(s, e + 1)
             ELSE FindAllWords(s, e + 1)

\* seq[:n]
Take(seq, n) == SubSeq(seq, 1, IF Len(seq) < n THEN Len(seq) ELSE n)

RECURSIVE JoinWith(_, _)
\* sep.join(seq)
JoinWith(sep, seq) ==
    IF Len(seq) = 0 THEN ""
    ELSE IF Len(seq) = 1 THEN seq[1]
    ELSE seq[1] \o sep \o JoinWith(sep, Tail(seq))

RECURSIVE StrReplace(_, _, _)
\* s.replace(old, new) for a non-empty old
StrReplace(s, old, new) ==
    IF Len(s) < Len(old) THEN s
    ELSE IF SubSeq(s, 1, Len(old)) = old
    THEN new \o StrReplace(SubSeq(s, Len(old) + 1, Len(s)), old, new)
    ELSE SubSeq(s, 1, 1) \o StrReplace(SubSeq(s, 2, Len(s)), old, new)

\* f"{conf:.2f}" for a score given in hundredths
FormatConf(h) ==
    LET a == IF h < 0 THEN -h ELSE h
        frac == a % 100
    IN  (IF h < 0 THEN "-" ELSE "") \o ToString(a \div 100) \o "."
        \o (IF frac < 10 THEN "0" ELSE "") \o ToString(frac)

\* ------------------------------------------------------------------------
\* Patterns and hints of the validator
\* ------------------------------------------------------------------------

\* the strings each VAGUE_TASK_PATTERNS entry accepts between the optional
\* leading and trailing whitespace
VAGUE_TASK_PATTERNS ==
    << {"fix issue", "fix the issue"},
       {"do project stuff"},
       {"handle", "handle it", "handle this"},
       {"do", "do it", "do stuff"} >>

MULTI_ACTION_HINTS == << " and ", " then " >>

VAGUE_STEP_PATTERNS == << {"do it"}, {"handle it"}, {"work on it"} >>

\* ------------------------------------------------------------------------
\* Prompt builder
\* ------------------------------------------------------------------------

\* the en dash of "Prefer 3-6 steps." is written as a hyphen
select_prompts(task_type, mode, strict) ==
    LET base == << "You are an AI Task Simplifier.",
                   "Break the user's task into clear, numbered steps.",
                   "One action per step. Do NOT combine actions.",
                   "Use simple, direct language.",
                   "Return ONLY what the JSON schema requests.",
                   "If the task is unclear, set clarification_needed=true and ask ONE question.",
                   "Lower confidence_score when uncertain." >>
        m == StrLower(IF mode = "" THEN "Standard" ELSE mode)
        modeRules ==
            IF m = "simplified"
            THEN << "Use very simple words.", "Max 12 words per step.", "Prefer 3-6 steps." >>
            ELSE IF m = "voice-first"
            THEN << "Use short spoken-friendly sentences.",
                    "Avoid visual references (e.g., 'see chart')." >>
            ELSE IF m = "visual-assist"
            THEN << "Make steps skimmable and checklist-like." >>
            ELSE IF m = "assistive"
            THEN << "Use supportive tone. Avoid long sentences." >>
            ELSE << >>
        strictRules ==
            IF strict
            THEN << "Be extra strict: if missing outcome/audience/format, ask clarification.",
                    "Do not exceed 6 steps unless unavoidable." >>
            ELSE << >>
        rules == base \o modeRules \o strictRules
    IN  [system |-> JoinWith("\n", rules) \o "\nTask type: " \o task_type \o ".",
         user   |-> "User task:\n{{TASK_TEXT}}"]

\* ------------------------------------------------------------------------
\* Pre-filter
\* ------------------------------------------------------------------------

\* the length test passing a text of exactly 10 characters
is_task_vague_at_most_ten(task_text) ==
    LET t == StrLower(StrStrip(task_text))
    IN  IF Len(t) <= 10 THEN TRUE
        ELSE \E i \in 1..Len(VAGUE_TASK_PATTERNS) :
                 ReMatchPadded(VAGUE_TASK_PATTERNS[i], t)

is_task_vague(task_text) ==
    LET t == StrLower(StrStrip(task_text))
    IN  IF Len(t) < 10 THEN TRUE
        ELSE \E i \in 1..Len(VAGUE_TASK_PATTERNS) :
                 ReMatchPadded(VAGUE_TASK_PATTERNS[i], t)

\* ------------------------------------------------------------------------
\* Acceptance checks
\* ------------------------------------------------------------------------

steps_sequential(steps) ==
    [i \in 1..Len(steps) |-> steps[i].step_number] = [i \in 1..Len(steps) |-> i]

\* the hints compared without lower-casing the instruction
one_action_per_step_case_sensitive(steps) ==
    ~ \E i \in 1..Len(steps) :
        \E h \in 1..Len(MULTI_ACTION_HINTS) :
            StrIn(MULTI_ACTION_HINTS[h], steps[i].instruction)

one_action_per_step(steps) ==
    ~ \E i \in 1..Len(steps) :
        LET instr == StrLower(steps[i].instruction)
        IN  \E h \in 1..Len(MULTI_ACTION_HINTS) : StrIn(MULTI_ACTION_HINTS[h], instr)

vague_steps(steps) ==
    \E i \in 1..Len(steps) :
        LET instr == StrLower(StrStrip(steps[i].instruction))
        IN  \/ \E p \in 1..Len(VAGUE_STEP_PATTERNS) :
                   ReMatchPadded(VAGUE_STEP_PATTERNS[p], instr)
            \/ Len(instr) < 6

\* the keywords taken from the whole task text, without the [:6] slice
basic_relevance_check_all_keywords(task_text, steps, task_type) ==
    LET task == StrLower(task_text)
        step_text == StrLower(JoinWith(" ", [i \in 1..Len(steps) |-> steps[i].instruction]))
        keywords == FindAllWords(task, 1)
        overlap == Cardinality({k \in 1..Len(keywords) : StrIn(keywords[k], step_text)})
    IN  IF /\ StrLower(task_type) = "reporting"
           /\ \A x \in {"report", "summary", "template"} : ~StrIn(x, step_text)
        THEN FALSE
        ELSE overlap >= 1

\* a task without keywords counted as relevant to any steps
basic_relevance_check_vacuous(task_text, steps, task_type) ==
    LET task == StrLower(task_text)
        step_text == StrLower(JoinWith(" ", [i \in 1..Len(steps) |-> steps[i].instruction]))
        keywords == Take(FindAllWords(task, 1), 6)
        overlap == Cardinality({k \in 1..Len(keywords) : StrIn(keywords[k], step_text)})
    IN  IF /\ StrLower(task_type) = "reporting"
           /\ \A x \in {"report", "summary", "template"} : ~StrIn(x, step_text)
        THEN FALSE
        ELSE overlap >= 1 \/ Len(keywords) = 0

basic_relevance_check(task_text, steps, task_type) ==
    LET task == StrLower(task_text)
        step_text == StrLower(JoinWith(" ", [i \in 1..Len(steps) |-> steps[i].instruction]))
        keywords == Take(FindAllWords(task, 1), 6)
        overlap == Cardinality({k \in 1..Len(keywords) : StrIn(keywords[k], step_text)})
    IN  IF /\ StrLower(task_type) = "reporting"
           /\ \A x \in {"report", "summary", "template"} : ~StrIn(x, step_text)
        THEN FALSE
        ELSE overlap >= 1

\* float(resp.get("confidence_score", 0.0)) of a number
RespConf(resp) == resp.confidence_score.value

\* float(None) raises TypeError
FloatRaises(resp) == resp.confidence_score.type = "null"

\* validate stopping at the first failed check
validate_first_error_only(task_text, task_type, resp) ==
    LET steps == resp.simplified_steps
        conf == RespConf(resp)
        errors ==
            IF Len(steps) = 0 THEN << "No steps returned" >>
            ELSE IF conf < CONF_MIN THEN << "Low confidence: " \o FormatConf(conf) >>
            ELSE IF ~steps_sequential(steps) THEN << "Steps not sequential" >>
            ELSE IF ~one_action_per_step(steps)
            THEN << "Multiple actions detected in a step" >>
            ELSE IF vague_steps(steps) THEN << "Vague/non-actionable steps detected" >>
            ELSE IF ~basic_relevance_check(task_text, steps, task_type)
            THEN << "Relevance check failed" >>
            ELSE << >>
    IN  [passed |-> Len(errors) = 0, errors |-> errors]

validate(task_text, task_type, resp) ==
    LET steps == resp.simplified_steps
        conf == RespConf(resp)
        e1 == IF Len(steps) = 0 THEN << "No steps returned" >> ELSE << >>
        e2 == IF conf < CONF_MIN
              THEN << "Low confidence: " \o FormatConf(conf) >> ELSE << >>
        e3 == IF Len(steps) > 0 /\ ~steps_sequential(steps)
              THEN << "Steps not sequential" >> ELSE << >>
        e4 == IF Len(steps) > 0 /\ ~one_action_per_step(steps)
              THEN << "Multiple actions detected in a step" >> ELSE << >>
        e5 == IF Len(steps) > 0 /\ vague_steps(steps)
              THEN << "Vague/non-actionable steps detected" >> ELSE << >>
        e6 == IF Len(steps) > 0 /\ ~basic_relevance_check(task_text, steps, task_type)
              THEN << "Relevance check failed" >> ELSE << >>
        errors == e1 \o e2 \o e3 \o e4 \o e5 \o e6
    IN  [passed |-> Len(errors) = 0, errors |-> errors]

\* ------------------------------------------------------------------------
\* Fallback responses
\* ------------------------------------------------------------------------

\* a clarification that carries the caller's last steps along
clarification_response_with_steps(task_id, message) ==
    [task_id |-> task_id,
     status |-> "CLARIFY",
     confidence_score |-> 0,
     reasons |-> << "Clarification required" >>,
     simplified_steps |-> << [step_number |-> 1, instruction |-> message] >>,
     fallback |-> [type |-> "CLARIFICATION", message |-> message, template_steps |-> << >>],
     telemetry |-> << >>]

clarification_response(task_id, message) ==
    [task_id |-> task_id,
     status |-> "CLARIFY",
     confidence_score |-> 0,
     reasons |-> << "Clarification required" >>,
     simplified_steps |-> << >>,
     fallback |-> [type |-> "CLARIFICATION", message |-> message, template_steps |-> << >>],
     telemetry |-> << >>]

generic_template(task_type) ==
    IF StrLower(task_type) = "reporting"
    THEN << "Collect info.", "Fill template.", "Write summary.", "Review.", "Submit." >>
    ELSE IF StrLower(task_type) = "technical"
    THEN << "Describe problem.", "Check changes.", "Try simplest fix.", "Record errors.",
            "Escalate with details." >>
    ELSE << "Define goal.", "List what you need.", "Do first step.", "Check progress.",
            "Finish and confirm." >>

\* template steps numbered from 0, as enumerate yields them
template_response_zero_based(task_id, message, template_steps) ==
    [task_id |-> task_id,
     status |-> "TEMPLATE",
     confidence_score |-> 0,
     reasons |-> << "Template fallback used" >>,
     simplified_steps |-> << >>,
     fallback |-> [type |-> "TEMPLATE",
                   message |-> message,
                   template_steps |-> [i \in 1..Len(template_steps) |->
                                          [step_number |-> i - 1,
                                           instruction |-> template_steps[i]]]],
     telemetry |-> << >>]

template_response(task_id, message, template_steps) ==
    [task_id |-> task_id,
     status |-> "TEMPLATE",
     confidence_score |-> 0,
     reasons |-> << "Template fallback used" >>,
     simplified_steps |-> << >>,
     fallback |-> [type |-> "TEMPLATE",
                   message |-> message,
                   template_steps |-> [i \in 1..Len(template_steps) |->
                                          [step_number |-> i, instruction |-> template_steps[i]]]],
     telemetry |-> << >>]

\* a second success status for a confidence below CONF_ACCEPT
accept_response_low_confidence_label(task_id, resp, attempt) ==
    LET conf == resp.confidence_score.value
    IN  [task_id |-> task_id,
         status |-> IF conf >= CONF_ACCEPT THEN "ACCEPT" ELSE "ACCEPT_LOW",
         confidence_score |-> conf,
         reasons |-> << >>,
         simplified_steps |-> resp.simplified_steps,
         fallback |-> [type |-> "NONE", message |-> "", template_steps |-> << >>],
         telemetry |-> << <<"prompt_version", "v1.0">>, <<"attempt", attempt + 1>>,
                          <<"validation_passed", TRUE>> >>]

\* the envelope returned when validation passes
accept_response(task_id, resp, attempt) ==
    LET conf == resp.confidence_score.value
    IN  [task_id |-> task_id,
         status |-> IF conf >= CONF_ACCEPT THEN "ACCEPT" ELSE "ACCEPT",
         confidence_score |-> conf,
         reasons |-> << >>,
         simplified_steps |-> resp.simplified_steps,
         fallback |-> [type |-> "NONE", message |-> "", template_steps |-> << >>],
         telemetry |-> << <<"prompt_version", "v1.0">>, <<"attempt", attempt + 1>>,
                          <<"validation_passed", TRUE>> >>]

\* ------------------------------------------------------------------------
\* Inputs: the requests the transport layer passes in, and the values a
\* structured LLM call can return
\* ------------------------------------------------------------------------

TaskIds == {"T-1", "T-2"}

TaskTexts ==
    {"Fix the issue", "  DO Project Stuff ", "Do it",
     "Prepare the weekly sales report",
     "Restart mail delivery after every nightly backup then check the server logs",
     "Go fix my PC at 10 am"}

\* task texts around the two tests of the pre-filter: every vague phrase, in
\* some letter case and padding, texts of 9 and 10 characters, and texts
\* that only begin with a vague phrase
PrefilterTexts ==
    {"Fix the issue", "fix issue", "  DO Project Stuff ", "handle", "Handle it",
     "\tHandle this\n", "do", "Do it", "do stuff",
     "Call Bob!", "Send email", " Send mail ",
     "Fix the issue in the login page", "do project stuff now", "Fix  the issue"}

TaskTypes == {"Reporting", "TECHNICAL", "Unknown"}

AccessibilityModes == {"Standard", "Voice-First"}

Requests ==
    [task_id : TaskIds, task_text : TaskTexts, task_type : TaskTypes,
     accessibility_mode : AccessibilityModes]

\* task_id values the model may write into its own output
LLMTaskIds == {"T-1", "made-up-id"}

\* the steps the model may put in a list, each with the number it gives it
StepCatalogue ==
    {[step_number |-> 1, instruction |-> "Open the report template."],
     [step_number |-> 2, instruction |-> "Fill in last week's numbers."],
     [step_number |-> 1, instruction |-> "Do it."],
     [step_number |-> 2, instruction |-> "Check the logs AND restart the server."],
     [step_number |-> 2, instruction |-> "Save the file, then close it."],
     [step_number |-> 1, instruction |-> " handle it "]}

StepLists == UNION {[1..n -> StepCatalogue] : n \in 0..MaxSteps}

\* confidence_score as the model may return it: a number (hundredths) or
\* JSON null
NumberConfidences == {[type |-> "number", value |-> v] : v \in {50, 70, 90, 150}}

Confidences == NumberConfidences \cup {[type |-> "null", value |-> 0]}

\* json.loads may return a mapping or any other JSON value
LLMValues ==
    [kind : {"dict"}, task_id : LLMTaskIds, confidence_score : Confidences,
     simplified_steps : StepLists]
        \cup {[kind |-> "list", task_id |-> "",
               confidence_score |-> [type |-> "null", value |-> 0],
               simplified_steps |-> << >>]}

\* the function f with every value computed once
Tabulated(f) == f @@ << >>

\* the test without its "vague" half
wants_clarification_relevance_only(errors) ==
    \E i \in 1..Len(errors) : StrIn("Relevance check failed", errors[i])

\* the test on last_errors that sends an exhausted request to CLARIFY
wants_clarification(errors) ==
    \/ \E i \in 1..Len(errors) : StrIn("Relevance check failed", errors[i])
    \/ \E i \in 1..Len(errors) : StrIn("vague", StrLower(errors[i]))

\* is_task_vague(task_text), by task text
TaskIsVague == Tabulated([t \in TaskTexts \cup PrefilterTexts |-> is_task_vague(t)])

\* select_prompts(task_type, mode, strict) with {{TASK_TEXT}} replaced in the
\* user prompt, by task type, mode, strict and task text
Prompts ==
    Tabulated([ty \in TaskTypes |->
        Tabulated([m \in AccessibilityModes |->
            Tabulated([strict \in BOOLEAN |->
                LET prompts == select_prompts(ty, m, strict)
                IN  [system |-> prompts.system,
                     user |-> Tabulated([t \in TaskTexts \cup PrefilterTexts |->
                                 StrReplace(prompts.user, "{{TASK_TEXT}}", t)])]])])])

\* validate(task_text, task_type, resp), with wants_clarification of its
\* errors, by request text, request type and the two fields of resp that
\* validate reads
Validation ==
    Tabulated([t \in TaskTexts |->
        Tabulated([ty \in TaskTypes |->
            Tabulated([c \in NumberConfidences |->
                Tabulated([st \in StepLists |->
                    LET validation ==
                            validate(t, ty, [kind |-> "dict", task_id |-> "",
                                             confidence_score |-> c,
                                             simplified_steps |-> st])
                    IN  [passed |-> validation.passed,
                         errors |-> validation.errors,
                         clarify |-> wants_clarification(validation.errors)]])])])])

\* the model's own task_id left in place
force_task_id_skipped(resp, task_id) == resp

\* resp["task_id"] = task_id
force_task_id(resp, task_id) == [resp EXCEPT !.task_id = task_id]

\* ------------------------------------------------------------------------
\* State
\* ------------------------------------------------------------------------

VARIABLES
    request,      \* the request mapping given to simplify_task
    pc,           \* "start", "calling" (blocked in call_llm_structured),
                  \* "done" (returned), "raised" (an exception propagated);
                  \* "validated" after a direct call of validate
    attempt,      \* the loop counter
    last_errors,  \* errors of the latest validation
    resp_task_id, \* resp["task_id"] of the latest parsed LLM value
    calls,        \* the call_llm_structured invocations made, in order
    outcomes,     \* per attempt: how the call ended and the validation errors
    responses,    \* the envelopes simplify_task has returned
    exception,    \* the exception that propagated out of simplify_task
    v_resp,       \* argument of a direct call of validate
    v_result,     \* its result
    mock,         \* the LLM stand-in of a test: whether it keeps a log, and
                  \* the outcomes it gave in the current invocation, in order
    earlier       \* the finished earlier invocation of simplify_task, if any

vars == << request, pc, attempt, last_errors, resp_task_id, calls, outcomes, responses,
           exception, v_resp, v_result, mock, earlier >>

NoValue == << >>

Init ==
    /\ request \in Requests
    /\ pc = "start"
    /\ attempt = 0
    /\ last_errors = << >>
    /\ resp_task_id = ""
    /\ calls = << >>
    /\ outcomes = << >>
    /\ responses = << >>
    /\ exception = ""
    /\ v_resp = NoValue
    /\ v_result = NoValue
    /\ mock = [recording |-> FALSE, log |-> << >>]
    /\ earlier = << >>

\* the outcome "the call raised" in the log of the stand-in
RaisedOutcome == [kind |-> "raise"]

\* the stand-in after it gave outcome o
Recorded(o) == IF mock.recording THEN [mock EXCEPT !.log = Append(@, o)] ELSE mock

\* every attempt called with the first attempt's settings
LLMCall_always_lenient(a) ==
    LET prompts == Prompts[request.task_type][request.accessibility_mode][FALSE]
    IN  [attempt |-> a,
         strict |-> FALSE,
         system_prompt |-> prompts.system,
         user_prompt |-> prompts.user[request.task_text],
         temperature |-> 20]

\* the arguments of the call issued in attempt a
LLMCall(a) ==
    LET strict == (a = 1)
        prompts == Prompts[request.task_type][request.accessibility_mode][strict]
    IN  [attempt |-> a,
         strict |-> strict,
         system_prompt |-> prompts.system,
         user_prompt |-> prompts.user[request.task_text],
         temperature |-> IF ~strict THEN 20 ELSE 0]

\* the loop entered with the counter an earlier invocation left behind
LoopTop_resuming(a) ==
    LET n == IF a = 0 THEN attempt ELSE a
    IN  /\ attempt' = n
        /\ IF n <= MAX_RETRY
           THEN /\ pc' = "calling"
                /\ calls' = Append(calls, LLMCall(n))
                /\ responses' = responses
           ELSE /\ pc' = "done"
                /\ calls' = calls
                /\ responses' = Append(responses,
                      template_response(request.task_id,
                          "Could not process task. Use this starter checklist.",
                          generic_template(request.task_type)))

\* top of the while loop with counter a: issue the next call, or fall out of
\* the loop to the final return
LoopTop(a) ==
    /\ attempt' = a
    /\ IF a <= MAX_RETRY
       THEN /\ pc' = "calling"
            /\ calls' = Append(calls, LLMCall(a))
            /\ responses' = responses
       ELSE /\ pc' = "done"
            /\ calls' = calls
            /\ responses' = Append(responses,
                  template_response(request.task_id,
                      "Could not process task. Use this starter checklist.",
                      generic_template(request.task_type)))

Return(r) ==
    /\ pc' = "done"
    /\ attempt' = attempt
    /\ calls' = calls
    /\ responses' = Append(responses, r)

Raise(e) ==
    /\ pc' = "raised"
    /\ exception' = e
    /\ UNCHANGED << attempt, calls, responses >>

\* simplify_task without the pre-filter
Start_without_prefilter ==
    /\ pc = "start"
    /\ UNCHANGED << request, resp_task_id, outcomes, exception, v_resp, v_result,
                    mock, earlier >>
    /\ last_errors' = << >>
    /\ LoopTop(0)

\* simplify_task up to its first LLM call
Start ==
    /\ pc = "start"
    /\ UNCHANGED << request, resp_task_id, outcomes, exception, v_resp, v_result,
                    mock, earlier >>
    /\ IF TaskIsVague[request.task_text]
       THEN /\ last_errors' = last_errors
            /\ Return(clarification_response(request.task_id,
                   "Please add outcome, deadline, and required format (if any)."))
       ELSE /\ last_errors' = << >>
            /\ LoopTop(0)

\* the except branch consulting last_errors before it falls back
LLMRaises_clarifying ==
    /\ pc = "calling"
    /\ outcomes' = Append(outcomes, [call |-> "raised", errors |-> << >>])
    /\ mock' = Recorded(RaisedOutcome)
    /\ UNCHANGED << request, last_errors, resp_task_id, exception, v_resp, v_result,
                    earlier >>
    /\ IF attempt < MAX_RETRY
       THEN LoopTop(attempt + 1)
       ELSE IF wants_clarification(last_errors)
       THEN Return(clarification_response(request.task_id,
                "What is the expected output and who is it for?"))
       ELSE Return(template_response(request.task_id,
                "AI service unavailable. Use this starter checklist.",
                generic_template(request.task_type)))

\* call_llm_structured raises: the except branch
LLMRaises ==
    /\ pc = "calling"
    /\ outcomes' = Append(outcomes, [call |-> "raised", errors |-> << >>])
    /\ mock' = Recorded(RaisedOutcome)
    /\ UNCHANGED << request, last_errors, resp_task_id, exception, v_resp, v_result,
                    earlier >>
    /\ IF attempt < MAX_RETRY
       THEN LoopTop(attempt + 1)
       ELSE Return(template_response(request.task_id,
                "AI service unavailable. Use this starter checklist.",
                generic_template(request.task_type)))

\* a voice-first request sent to CLARIFY whenever its attempts run out
LLMReturns_voice_clarifies(v) ==
    /\ pc = "calling"
    /\ mock' = Recorded(v)
    /\ UNCHANGED << request, v_resp, v_result, earlier >>
    /\ IF v.kind # "dict"
       THEN /\ Raise("TypeError")
            /\ UNCHANGED << last_errors, resp_task_id, outcomes >>
       ELSE LET r == force_task_id(v, request.task_id)
                validation ==
                    Validation[request.task_text][request.task_type]
                              [r.confidence_score][r.simplified_steps]
            IN  /\ resp_task_id' = r.task_id
                /\ IF FloatRaises(r)
                   THEN /\ Raise("TypeError")
                        /\ UNCHANGED << last_errors, outcomes >>
                   ELSE /\ last_errors' = validation.errors
                        /\ outcomes' = Append(outcomes,
                              [call |-> "returned", errors |-> validation.errors])
                        /\ exception' = exception
                        /\ IF validation.passed
                           THEN Return(accept_response(request.task_id, r, attempt))
                           ELSE IF attempt < MAX_RETRY
                           THEN LoopTop(attempt + 1)
                           ELSE IF \/ validation.clarify
                                   \/ StrLower(request.accessibility_mode) = "voice-first"
                           THEN Return(clarification_response(request.task_id,
                                    "What is the expected output and who is it for?"))
                           ELSE Return(template_response(request.task_id,
                                    "Could not simplify reliably. Use this starter checklist.",
                                    generic_template(request.task_type)))

\* call_llm_structured returns v: the rest of the loop body
LLMReturns(v) ==
    /\ pc = "calling"
    /\ mock' = Recorded(v)
    /\ UNCHANGED << request, v_resp, v_result, earlier >>
    /\ IF v.kind # "dict"
       THEN /\ Raise("TypeError")
            /\ UNCHANGED << last_errors, resp_task_id, outcomes >>
       ELSE LET r == force_task_id(v, request.task_id)
                validation ==
                    Validation[request.task_text][request.task_type]
                              [r.confidence_score][r.simplified_steps]
            IN  /\ resp_task_id' = r.task_id
                /\ IF FloatRaises(r)
                   THEN /\ Raise("TypeError")
                        /\ UNCHANGED << last_errors, outcomes >>
                   ELSE /\ last_errors' = validation.errors
                        /\ outcomes' = Append(outcomes,
                              [call |-> "returned", errors |-> validation.errors])
                        /\ exception' = exception
                        /\ IF validation.passed
                           THEN Return(accept_response(request.task_id, r, attempt))
                           ELSE IF attempt < MAX_RETRY
                           THEN LoopTop(attempt + 1)
                           ELSE IF validation.clarify
                           THEN Return(clarification_response(request.task_id,
                                    "What is the expected output and who is it for?"))
                           ELSE Return(template_response(request.task_id,
                                    "Could not simplify reliably. Use this starter checklist.",
                                    generic_template(request.task_type)))

\* validate called on its own, with the request's text and type, on a
\* parsed value that has its task_id forced and a numeric confidence
Validate(v) ==
    /\ pc = "start"
    /\ v.kind = "dict"
    /\ ~FloatRaises(v)
    /\ pc' = "validated"
    /\ LET r == force_task_id(v, request.task_id)
       IN  /\ v_resp' = r
           /\ v_result' = Validation[request.task_text][request.task_type]
                                    [r.confidence_score][r.simplified_steps]
    /\ UNCHANGED << request, attempt, last_errors, resp_task_id, calls, outcomes,
                    responses, exception, mock, earlier >>

Next ==
    \/ Start
    \/ LLMRaises
    \/ \E v \in LLMValues : LLMReturns(v)

Spec == Init /\ [][Next]_vars

\* the values the LLM returns in the runs checked for termination: the
\* non-mapping, and mappings with a low, a high or a null confidence and at
\* most one step
CompletionValues ==
    {v \in LLMValues :
        /\ v.task_id # "T-1"
        /\ v.confidence_score.value \in {0, 50, 90}
        /\ Len(v.simplified_steps) <= 1}

NextFair ==
    \/ Start
    \/ LLMRaises
    \/ \E v \in CompletionValues : LLMReturns(v)

\* simplify_task keeps running, and every call_llm_structured it issues
\* comes back: it returns a value or it raises
FairSpec == Init /\ [][NextFair]_vars /\ WF_vars(NextFair)

\* validate as a function of its arguments
NextValidate == \E v \in LLMValues : Validate(v)

SpecValidate == Init /\ [][NextValidate]_vars

\* the mocked LLM of scenario C: every call returns the single step
\* {1, "Do it."}
DoItValues ==
    {v \in LLMValues :
        /\ v.kind = "dict"
        /\ v.confidence_score.type = "number"
        /\ v.simplified_steps = << [step_number |-> 1, instruction |-> "Do it."] >>}

NextDoIt ==
    \/ Start
    \/ \E v \in DoItValues : LLMReturns(v)

SpecDoIt == Init /\ [][NextDoIt]_vars

\* the step lists the stand-in of the repeated invocations answers with: the
\* lists of at most one step and the two steps of scenario B
MockStepLists ==
    {st \in StepLists : Len(st) <= 1}
        \cup {<< [step_number |-> 1, instruction |-> "Open the report template."],
                 [step_number |-> 2, instruction |-> "Fill in last week's numbers."] >>}

\* its answers: well-formed mappings with a confidence in [0, 1]
MockValues ==
    [kind : {"dict"}, task_id : {"made-up-id"},
     confidence_score : {c \in NumberConfidences : c.value <= 100},
     simplified_steps : MockStepLists]

\* simplify_task about to be invoked with a stand-in that keeps a log
InitMock ==
    /\ request \in Requests
    /\ pc = "start"
    /\ attempt = 0
    /\ last_errors = << >>
    /\ resp_task_id = ""
    /\ calls = << >>
    /\ outcomes = << >>
    /\ responses = << >>
    /\ exception = ""
    /\ v_resp = NoValue
    /\ v_result = NoValue
    /\ mock = [recording |-> TRUE, log |-> << >>]
    /\ earlier = << >>

\* in a second invocation the stand-in gives the outcomes it gave in the
\* first, in the same order, as far as that log goes
Scripted(o) ==
    IF Len(earlier) = 0 THEN TRUE
    ELSE LET i == Len(mock.log) + 1
         IN  IF i <= Len(earlier[1].log) THEN o = earlier[1].log[i] ELSE TRUE

MockRaises == Scripted(RaisedOutcome) /\ LLMRaises

MockReturns(v) == Scripted(v) /\ LLMReturns(v)

\* the caller invokes simplify_task a second time, with the same request
\* but for the accessibility mode given; the locals of the first invocation
\* are gone with its frame and are assigned again before they are read
CallAgain(mode) ==
    /\ pc = "done"
    /\ Len(earlier) = 0
    /\ earlier' = << [request |-> request, calls |-> calls, outcomes |-> outcomes,
                      response |-> responses[1], log |-> mock.log] >>
    /\ request' = [request EXCEPT !.accessibility_mode = mode]
    /\ pc' = "start"
    /\ calls' = << >>
    /\ outcomes' = << >>
    /\ responses' = << >>
    /\ mock' = [mock EXCEPT !.log = << >>]
    /\ UNCHANGED << attempt, last_errors, resp_task_id, exception, v_resp, v_result >>

NextMock ==
    \/ Start
    \/ MockRaises
    \/ \E v \in MockValues : MockReturns(v)
    \/ \E mode \in AccessibilityModes : CallAgain(mode)

SpecMock == InitMock /\ [][NextMock]_vars

\* simplify_task about to be invoked on one of them
InitPrefilter ==
    /\ request \in [task_id : TaskIds, task_text : PrefilterTexts, task_type : TaskTypes,
                     accessibility_mode : AccessibilityModes]
    /\ pc = "start"
    /\ attempt = 0
    /\ last_errors = << >>
    /\ resp_task_id = ""
    /\ calls = << >>
    /\ outcomes = << >>
    /\ responses = << >>
    /\ exception = ""
    /\ v_resp = NoValue
    /\ v_result = NoValue
    /\ mock = [recording |-> FALSE, log |-> << >>]
    /\ earlier = << >>

\* simplify_task up to the point where it waits for the LLM
SpecPrefilter == InitPrefilter /\ [][Start]_vars

\* ------------------------------------------------------------------------
\* Properties
\* ------------------------------------------------------------------------

Statuses == {"ACCEPT", "CLARIFY", "TEMPLATE"}

Returned == pc = "done" /\ Len(responses) = 1

HasError(errors, e) == \E i \in 1..Len(errors) : errors[i] = e

\* the steps template_response has to carry for a task type
NumberedTemplate(task_type) ==
    LET g == generic_template(task_type)
    IN  [i \in 1..Len(g) |-> [step_number |-> i, instruction |-> g[i]]]

\* C1: once simplify_task has run on a task_text that is_task_vague judges
\* vague, it has returned a CLARIFY response and has made no LLM call.
C1_VagueClarifiesWithoutLLM ==
    (pc # "start" /\ is_task_vague(request.task_text))
        => /\ Returned
           /\ responses[1].status = "CLARIFY"
           /\ Len(calls) = 0

C1_Witness ==
    /\ Returned
    /\ is_task_vague(request.task_text)
    /\ responses[1].status = "CLARIFY"
    /\ Len(calls) = 0

\* C2: whatever the LLM calls do (raise, return a value that fails
\* validation, return one that passes), a request never issues more than 2
\* calls, never returns more than one response, and when simplify_task has
\* returned it has returned exactly one response, with status ACCEPT, CLARIFY
\* or TEMPLATE.
C2_TwoCallsOneResponse ==
    /\ Len(calls) <= 2
    /\ Len(responses) <= 1
    /\ (pc = "done") <=> (Len(responses) = 1)
    /\ \A i \in 1..Len(responses) : responses[i].status \in Statuses

C2_Witness ==
    /\ Returned
    /\ Len(calls) = 2
    /\ outcomes[1].call = "raised"
    /\ outcomes[2].call = "returned"
    /\ responses[1].status = "ACCEPT"

\* C3: when simplify_task has returned after every LLM call of a non-vague
\* request raised, it made exactly 2 calls and returned TEMPLATE whose
\* template_steps are the instructions of generic_template(task_type), in
\* order, numbered 1..N.
C3_AllCallsFailGivesTemplate ==
    (/\ Returned
     /\ Len(outcomes) >= 1
     /\ \A i \in 1..Len(outcomes) : outcomes[i].call = "raised")
        => /\ Len(calls) = 2
           /\ Len(outcomes) = 2
           /\ responses[1].status = "TEMPLATE"
           /\ responses[1].fallback.template_steps = NumberedTemplate(request.task_type)

C3_Witness ==
    /\ Returned
    /\ Len(outcomes) = 2
    /\ outcomes[1].call = "raised"
    /\ outcomes[2].call = "raised"
    /\ request.task_type = "TECHNICAL"
    /\ responses[1].fallback.template_steps[5].instruction = "Escalate with details."

\* C4: every ACCEPT response has at least one step, its step numbers are
\* 1, 2, ..., N in list order, and no instruction contains " and " or
\* " then " in any letter case.
C4_AcceptedStepsWellFormed ==
    (Returned /\ responses[1].status = "ACCEPT")
        => LET steps == responses[1].simplified_steps
           IN  /\ Len(steps) >= 1
               /\ \A i \in 1..Len(steps) :
                      /\ steps[i].step_number = i
                      /\ ~StrIn(" and ", StrLower(steps[i].instruction))
                      /\ ~StrIn(" then ", StrLower(steps[i].instruction))

C4_Witness ==
    /\ Returned
    /\ responses[1].status = "ACCEPT"
    /\ Len(responses[1].simplified_steps) = 2
    /\ responses[1].simplified_steps[2].step_number = 2

\* C5: when the call of the last permitted attempt returned and its value
\* failed validation, the result is CLARIFY exactly when the errors of that
\* attempt hold the relevance failure or an error containing "vague" in any
\* letter case, and otherwise TEMPLATE with the steps of the task type's
\* template; the errors of the earlier attempt play no part.
C5_LastErrorsChooseFallback ==
    (/\ Returned
     /\ Len(outcomes) = 2
     /\ outcomes[2].call = "returned"
     /\ outcomes[2].errors # << >>)
        => LET errors == outcomes[2].errors
               trigger ==
                   \/ HasError(errors, "Relevance check failed")
                   \/ \E i \in 1..Len(errors) : StrIn("vague", StrLower(errors[i]))
           IN  /\ trigger => responses[1].status = "CLARIFY"
               /\ ~trigger =>
                      /\ responses[1].status = "TEMPLATE"
                      /\ responses[1].fallback.template_steps
                             = NumberedTemplate(request.task_type)

\* the first attempt failed on relevance and on a vague step, the last one
\* on other checks only: TEMPLATE
C5_Witness ==
    /\ Returned
    /\ Len(outcomes) = 2
    /\ outcomes[1].call = "returned"
    /\ HasError(outcomes[1].errors, "Relevance check failed")
    /\ HasError(outcomes[1].errors, "Vague/non-actionable steps detected")
    /\ outcomes[2].call = "returned"
    /\ outcomes[2].errors # << >>
    /\ responses[1].status = "TEMPLATE"

\* C6: with an LLM that returns the single step {1, "Do it."} on both
\* attempts of a non-vague request, the errors after attempt 2 include
\* "Vague/non-actionable steps detected" and the final status is CLARIFY.
C6_DoItIsAVagueStep ==
    (Returned /\ Len(outcomes) = 2)
        => /\ HasError(last_errors, "Vague/non-actionable steps detected")
           /\ responses[1].status = "CLARIFY"

\* the errors validate has to return when each check is evaluated on every
\* response (relevanceAlways) or relevance only on a non-empty step list
ExpectedErrors(task_text, task_type, resp, relevanceAlways) ==
    LET steps == resp.simplified_steps
        present == Len(steps) > 0
    IN  (IF ~present THEN {"No steps returned"} ELSE {})
        \cup (IF resp.confidence_score.value < 70
              THEN {"Low confidence: " \o FormatConf(resp.confidence_score.value)}
              ELSE {})
        \cup (IF present /\ ~steps_sequential(steps) THEN {"Steps not sequential"} ELSE {})
        \cup (IF ~one_action_per_step(steps)
              THEN {"Multiple actions detected in a step"} ELSE {})
        \cup (IF vague_steps(steps) THEN {"Vague/non-actionable steps detected"} ELSE {})
        \cup (IF /\ relevanceAlways \/ present
                 /\ ~basic_relevance_check(task_text, steps, task_type)
              THEN {"Relevance check failed"} ELSE {})

ChecksReported(relevanceAlways) ==
    pc = "validated"
        => LET expected == ExpectedErrors(request.task_text, request.task_type,
                                          v_resp, relevanceAlways)
               errors == v_result.errors
           IN  /\ {errors[i] : i \in 1..Len(errors)} = expected
               /\ Len(errors) = Cardinality(expected)
               /\ v_result.passed <=> (Len(errors) = 0)

\* C7 as stated: validate reports every violated check of every response,
\* relevance included, with one entry each, and passes iff there is none.
C7_EveryCheckOnEveryResponse == ChecksReported(TRUE)

\* C7 as amended: validate reports, with one entry each and without stopping
\* at the first, the empty step list, the confidence below 0.70 and, for a
\* non-empty step list only, the numbering, the compound action, the vague
\* step and the relevance failure; it passes iff there is no entry.
C7_ChecksOnPresentSteps == ChecksReported(FALSE)

C7_Witness ==
    /\ pc = "validated"
    /\ Len(v_resp.simplified_steps) = 2
    /\ Len(v_result.errors) = 5

\* C8: no exception propagates out of simplify_task, whatever the LLM call
\* raises or returns.
C8_NoExceptionPropagates == pc # "raised"

\* C9: every returned response has one of three shapes: ACCEPT with fallback
\* NONE, no reasons and no template steps; CLARIFY with fallback
\* CLARIFICATION, no simplified steps and no template steps; TEMPLATE with
\* fallback TEMPLATE and no simplified steps.  Reasons are empty exactly for
\* ACCEPT.
C9_ResponseShapes ==
    \A i \in 1..Len(responses) :
        LET r == responses[i]
        IN  /\ r.status \in Statuses
            /\ r.status = "ACCEPT" =>
                   /\ r.fallback.type = "NONE"
                   /\ r.reasons = << >>
                   /\ r.fallback.template_steps = << >>
            /\ r.status = "CLARIFY" =>
                   /\ r.fallback.type = "CLARIFICATION"
                   /\ r.simplified_steps = << >>
                   /\ r.fallback.template_steps = << >>
            /\ r.status = "TEMPLATE" =>
                   /\ r.fallback.type = "TEMPLATE"
                   /\ r.simplified_steps = << >>
            /\ (r.reasons = << >>) <=> (r.status = "ACCEPT")

C9_Witness ==
    /\ Returned
    /\ Len(calls) = 2
    /\ responses[1].status = "CLARIFY"
    /\ responses[1].fallback.type = "CLARIFICATION"

\* C10: every response carries the request's task_id, and the task_id of a
\* parsed LLM value is the request's from the moment it is validated.
C10_TaskIdIsTheRequests ==
    /\ \A i \in 1..Len(responses) : responses[i].task_id = request.task_id
    /\ resp_task_id # "" => resp_task_id = request.task_id

\* an ACCEPT for request T-2, an id no LLM value carries
C10_Witness ==
    /\ Returned
    /\ request.task_id = "T-2"
    /\ resp_task_id = "T-2"
    /\ responses[1].status = "ACCEPT"

\* C11: the first LLM call of a request is made with the non-strict prompt
\* and temperature 0.2, a second call comes after it with the strict prompt
\* and temperature 0.0, and no call has any other combination.
C11_AttemptSettings ==
    \A i \in 1..Len(calls) :
        LET strictPrompt == StrIn("Be extra strict", calls[i].system_prompt)
        IN  /\ i <= 2
            /\ calls[i].attempt = i - 1
            /\ i = 1 => ~calls[i].strict /\ ~strictPrompt /\ calls[i].temperature = 20
            /\ i = 2 => calls[i].strict /\ strictPrompt /\ calls[i].temperature = 0

C11_Witness ==
    /\ Len(calls) = 2
    /\ ~calls[1].strict
    /\ calls[2].strict
    /\ calls[2].temperature = 0

\* C12: the confidence_score of every returned response lies in [0, 1],
\* whatever number the LLM value carries.
C12_ConfidenceInUnitInterval ==
    \A i \in 1..Len(responses) :
        responses[i].confidence_score >= 0 /\ responses[i].confidence_score <= 100

\* C16: when the call of the last permitted attempt raises, the result is
\* TEMPLATE with the AI-service-unavailable message and the task type's
\* template steps, whatever the first attempt did.
C16_LastCallFailsGivesTemplate ==
    (/\ Returned
     /\ Len(outcomes) = 2
     /\ outcomes[2].call = "raised")
        => /\ responses[1].status = "TEMPLATE"
           /\ responses[1].fallback.type = "TEMPLATE"
           /\ responses[1].fallback.message
                  = "AI service unavailable. Use this starter checklist."
           /\ responses[1].fallback.template_steps = NumberedTemplate(request.task_type)

\* the first attempt failed validation on relevance and on a vague step, the
\* second call raised
C16_Witness ==
    /\ Returned
    /\ Len(outcomes) = 2
    /\ outcomes[1].call = "returned"
    /\ HasError(outcomes[1].errors, "Relevance check failed")
    /\ HasError(outcomes[1].errors, "Vague/non-actionable steps detected")
    /\ outcomes[2].call = "raised"
    /\ responses[1].status = "TEMPLATE"

\* a text the pre-filter lets through that has no run of 4 or more letters
NoKeywordTask(task_text) ==
    /\ ~is_task_vague(task_text)
    /\ Len(FindAllWords(StrLower(task_text), 1)) = 0

\* C20: for a non-vague task_text without an alphabetic token of 4 or more
\* letters no validation passes, so no response is ACCEPT: whatever is
\* returned is CLARIFY or TEMPLATE and comes after both attempts were spent.
C20_NoKeywordNeverAccepted ==
    NoKeywordTask(request.task_text)
        => /\ \A i \in 1..Len(outcomes) :
                  outcomes[i].call = "returned" => outcomes[i].errors # << >>
           /\ Returned =>
                  /\ responses[1].status \in {"CLARIFY", "TEMPLATE"}
                  /\ Len(calls) = 2
                  /\ Len(outcomes) = 2

C20_Witness ==
    /\ NoKeywordTask(request.task_text)
    /\ Returned
    /\ Len(outcomes) = 2
    /\ outcomes[1].call = "returned"
    /\ outcomes[2].call = "returned"
    /\ outcomes[2].errors = << "Relevance check failed" >>
    /\ responses[1].status = "CLARIFY"

\* the maximal runs of four or more letters of s, as <<first, last>> indexes
TokenSpans(s) ==
    {sp \in (1..Len(s)) \X (1..Len(s)) :
        /\ sp[2] - sp[1] + 1 >= 4
        /\ sp[1] = 1 \/ ~IsLetter(CharAt(s, sp[1] - 1))
        /\ sp[2] = Len(s) \/ ~IsLetter(CharAt(s, sp[2] + 1))
        /\ \A k \in sp[1]..sp[2] : IsLetter(CharAt(s, k))}

\* the first n of them, as strings
FirstTokens(s, n) ==
    LET spans == TokenSpans(s)
    IN  {SubSeq(s, sp[1], sp[2]) :
            sp \in {x \in spans : Cardinality({o \in spans : o[1] < x[1]}) < n}}

\* the first 6 alphabetic tokens of length >= 4 of each lower-cased task text
FirstSixTokens == Tabulated([t \in TaskTexts |-> FirstTokens(StrLower(t), 6)])

\* the lower-cased instructions of each step list, one after the other
LoweredInstructions ==
    Tabulated([st \in StepLists |->
        StrLower(JoinWith(" ", [i \in 1..Len(st) |-> st[i].instruction]))])

\* C18: on a response with steps, validate records no relevance error if
\* and only if one of the first 6 alphabetic tokens of length >= 4 of the
\* lower-cased task text occurs in the lower-cased instructions and, for
\* task type "Reporting" in any letter case, one of "report", "summary",
\* "template" occurs there too.
C18_RelevanceCriterion ==
    (pc = "validated" /\ Len(v_resp.simplified_steps) > 0)
        => LET text == LoweredInstructions[v_resp.simplified_steps]
               tokenOverlap ==
                   \E k \in FirstSixTokens[request.task_text] : StrIn(k, text)
               reportingWord ==
                   \E x \in {"report", "summary", "template"} : StrIn(x, text)
               relevant ==
                   /\ tokenOverlap
                   /\ StrLower(request.task_type) = "reporting" => reportingWord
           IN  relevant <=> ~HasError(v_result.errors, "Relevance check failed")

\* a non-Reporting task whose only token found in the steps ("then") is its
\* eighth: the relevance error is recorded
C18_Witness ==
    /\ pc = "validated"
    /\ request.task_type = "TECHNICAL"
    /\ Cardinality(FirstSixTokens[request.task_text]) = 6
    /\ v_resp.simplified_steps = << [step_number |-> 2,
                                     instruction |-> "Save the file, then close it."] >>
    /\ StrIn("then", StrLower(request.task_text))
    /\ HasError(v_result.errors, "Relevance check failed")

\* the second of two invocations has returned
ReturnedAgain == Returned /\ Len(earlier) = 1

\* every outcome of both invocations is the same returned value
SameValueEveryCall ==
    /\ Len(earlier[1].log) >= 1
    /\ earlier[1].log[1] \in MockValues
    /\ \A i \in 1..Len(earlier[1].log) : earlier[1].log[i] = earlier[1].log[1]
    /\ \A i \in 1..Len(mock.log) : mock.log[i] = earlier[1].log[1]

\* C13: with a stand-in LLM that returns the same well-formed value at every
\* call, a second invocation of simplify_task with the identical request
\* makes the same calls, sees the same validation results and returns the
\* identical response.
C13_RepeatedCallSameResponse ==
    (/\ ReturnedAgain
     /\ earlier[1].request = request
     /\ SameValueEveryCall)
        => /\ responses[1] = earlier[1].response
           /\ calls = earlier[1].calls
           /\ outcomes = earlier[1].outcomes

\* both invocations were answered twice with the same value, which passed
\* neither time
C13_Witness ==
    /\ ReturnedAgain
    /\ earlier[1].request = request
    /\ SameValueEveryCall
    /\ Len(earlier[1].log) = 2
    /\ Len(mock.log) = 2
    /\ responses[1].status = "CLARIFY"

\* a call record without its system prompt
WithoutSystemPrompt(call) == [call EXCEPT !.system_prompt = ""]

\* C14: two invocations whose requests differ only in accessibility_mode
\* and that get the same LLM outcomes in the same order make the same number
\* of calls, with the same arguments but for the system prompt, and return
\* the same response.
C14_ModeChangesPromptOnly ==
    (/\ ReturnedAgain
     /\ earlier[1].request.accessibility_mode # request.accessibility_mode
     /\ earlier[1].request = [request EXCEPT
                                 !.accessibility_mode = earlier[1].request.accessibility_mode])
        => /\ Len(calls) = Len(earlier[1].calls)
           /\ \A i \in 1..Len(calls) :
                  i <= Len(earlier[1].calls)
                      => WithoutSystemPrompt(calls[i]) = WithoutSystemPrompt(earlier[1].calls[i])
           /\ responses[1] = earlier[1].response
           /\ mock.log = earlier[1].log

\* the two modes gave different system prompts, each invocation made two
\* calls
C14_Witness ==
    /\ ReturnedAgain
    /\ earlier[1].request.accessibility_mode # request.accessibility_mode
    /\ Len(calls) = 2
    /\ Len(earlier[1].calls) = 2
    /\ calls[1].system_prompt # earlier[1].calls[1].system_prompt
    /\ earlier[1].log[1] = RaisedOutcome
    /\ responses[1].status = "ACCEPT"

\* the call of attempt i returned and its value passed validation
PassedAt(i) == outcomes[i].call = "returned" /\ outcomes[i].errors = << >>

\* C15: simplify_task returns ACCEPT exactly when the call of some attempt
\* returned a value that passed validation; that is the first such attempt
\* and the last call made, the response carries the confidence score and the
\* steps of that value as they came, and its status is ACCEPT on either side
\* of CONF_ACCEPT.
C15_AcceptIffValidationPassed ==
    /\ \A i \in 1..Len(outcomes) :
           PassedAt(i) => /\ i = Len(outcomes)
                          /\ Len(calls) = i
                          /\ Returned
                          /\ responses[1].status = "ACCEPT"
    /\ Returned =>
           /\ responses[1].status \in Statuses
           /\ responses[1].status = "ACCEPT" =>
                  /\ Len(outcomes) >= 1
                  /\ PassedAt(Len(outcomes))
                  /\ Len(mock.log) = Len(outcomes)
                  /\ LET v == mock.log[Len(outcomes)]
                     IN  /\ v \in MockValues
                         /\ responses[1].confidence_score = v.confidence_score.value
                         /\ responses[1].simplified_steps = v.simplified_steps
                  /\ responses[1].telemetry[2] = << "attempt", Len(outcomes) >>

\* accepted at the first attempt with a confidence between CONF_MIN and
\* CONF_ACCEPT
C15_Witness ==
    /\ Returned
    /\ responses[1].status = "ACCEPT"
    /\ Len(calls) = 1
    /\ responses[1].confidence_score >= CONF_MIN
    /\ responses[1].confidence_score < CONF_ACCEPT
    /\ Len(responses[1].simplified_steps) = 2

\* the fixed vague phrases
VaguePhrases ==
    {"fix issue", "fix the issue", "do project stuff",
     "handle", "handle it", "handle this", "do", "do it", "do stuff"}

\* simplify_task returned CLARIFY without calling the LLM
ClarifiedWithoutCall ==
    /\ Returned
    /\ responses[1].status = "CLARIFY"
    /\ Len(calls) = 0

\* C17: simplify_task stops at the pre-filter, with CLARIFY and no LLM call,
\* exactly for a task_text whose trimmed, lower-cased form has fewer than 10
\* characters or is one of the fixed vague phrases; any other text goes on
\* to the first LLM call. "Fix the issue" is stopped.
C17_VagueCriterion ==
    pc # "start"
        => LET t == StrLower(StrStrip(request.task_text))
           IN  /\ (Len(t) < 10 \/ t \in VaguePhrases) <=> ClarifiedWithoutCall
               /\ ~ClarifiedWithoutCall => pc = "calling" /\ Len(calls) = 1
               /\ request.task_text = "Fix the issue" => ClarifiedWithoutCall

\* a padded phrase of more than 10 characters is stopped
C17_Witness ==
    /\ request.task_text = "\tHandle this\n"
    /\ ClarifiedWithoutCall

\* C19: when every issued LLM call returns or fails, every invocation of
\* simplify_task reaches a returned response with status ACCEPT, CLARIFY or
\* TEMPLATE and stays there.
C19_ReachesTerminalStatus ==
    <>[](Returned /\ responses[1].status \in Statuses)

====
